---- MODULE Spec2Model ----
(***************************************************************************)
(* Sayonara chatbot: the streaming response pipeline and the session       *)
(* store.  The server side is the backend in src/unnamed/part_000          *)
(* (sessions, getOrCreateSession, the sweep, POST /api/chat and            *)
(* GET /api/chat/stream); the client side is ChatbotAPI.streamMessage /    *)
(* demoStream and the callbacks ChatWindow.handleSendMessage hands to it.  *)
(*                                                                         *)
(* A JavaScript string is a sequence of tokens: the token " " is one space *)
(* character, every other token is an indivisible run of non-space         *)
(* characters.  split, join and includes work on that representation.      *)
(*                                                                         *)
(* The specifications share the state and the actions:                     *)
(*   Spec              one ChatWindow request through streamMessage, with  *)
(*                     the server handling it and the transport between;   *)
(*   SessionSpec       requests of several clients on the session store,   *)
(*                     with the clock and the periodic sweep;              *)
(*   ConversationSpec  a ChatWindow request and the messages the user      *)
(*                     sends after it;                                     *)
(*   GenerationSpec    a backend process (part_000 or src/server.js) from  *)
(*                     its start-up through a call of the remote model:    *)
(*                     searchKnowledgeBase, the prompt and the options.    *)
(***************************************************************************)
EXTENDS Integers, Sequences, FiniteSets, TLC

(***************************************************************************)
(* Bounds of the model                                                     *)
(***************************************************************************)
\* the longest text of the remote model, in tokens
MaxLen == 3
\* the number of runs of the sweep
MaxTicks == 7
\* the number of messages the user sends through ChatWindow
MaxSends == 2
\* the number of fragments a query of the knowledge base is made of
MaxFragments == 2

(***************************************************************************)
(* Values                                                                  *)
(***************************************************************************)
\* JavaScript's undefined; no string of the model is this one-token sequence
Undefined == <<"<undefined>">>

Alphabet == {"a", " "}

RECURSIVE StringsOfLen(_)
StringsOfLen(n) ==
    IF n = 0 THEN {<<>>}
    ELSE {Append(s, c) : s \in StringsOfLen(n - 1), c \in Alphabet}

\* the texts the remote model may answer with
Texts == UNION {StringsOfLen(n) : n \in 0..MaxLen}

\* the messages a request may carry
MsgHello == <<"h", "i">>
MsgWipe == <<"W", "i", "p", "e">>
MsgBlockchain == <<"b", "l", "o", "c", "k", "c", "h", "a", "i", "n">>
MsgRag == <<"r", "a", "g">>
MsgWipeRag == <<"r", "a", "g", " ", "w", "i", "p">>
Messages == {MsgHello, MsgWipe, MsgBlockchain, MsgRag, MsgWipeRag}

\* the x-session-id header / sessionId query parameter of a request
SessionHeaders == {Undefined, <<"s1">>}
DefaultSessionId == <<"default">>

\* the requests the server sees: the pipeline has one, the properties of the
\* session store are about pairs of requests
ReqIds == {1, 2}

(***************************************************************************)
(* String functions                                                        *)
(***************************************************************************)
\* s.split(' ')
RECURSIVE split(_)
split(s) ==
    IF \A k \in 1..Len(s) : s[k] # " " THEN <<s>>
    ELSE LET p == CHOOSE k \in 1..Len(s) :
                      s[k] = " " /\ \A j \in 1..(k - 1) : s[j] # " "
         IN  <<SubSeq(s, 1, p - 1)>> \o split(SubSeq(s, p + 1, Len(s)))

\* ws.join(' ')
RECURSIVE join(_)
join(ws) ==
    IF Len(ws) = 0 THEN <<>>
    ELSE IF Len(ws) = 1 THEN ws[1]
    ELSE ws[1] \o <<" ">> \o join(Tail(ws))

\* ws.slice(0, n)
slice(ws, n) == SubSeq(ws, 1, IF n < Len(ws) THEN n ELSE Len(ws))

\* s.includes(sub)
includes(s, sub) ==
    \E k \in 0..(Len(s) - Len(sub)) : SubSeq(s, k + 1, k + Len(sub)) = sub

\* s.toLowerCase(), on a string spelled character by character
upperCase ==
    <<"A", "B", "C", "D", "E", "F", "G", "H", "I", "J", "K", "L", "M",
      "N", "O", "P", "Q", "R", "S", "T", "U", "V", "W", "X", "Y", "Z">>
lowerCase ==
    <<"a", "b", "c", "d", "e", "f", "g", "h", "i", "j", "k", "l", "m",
      "n", "o", "p", "q", "r", "s", "t", "u", "v", "w", "x", "y", "z">>
toLowerCase(s) ==
    [k \in 1..Len(s) |->
        IF \E i \in 1..26 : upperCase[i] = s[k]
        THEN lowerCase[CHOOSE i \in 1..26 : upperCase[i] = s[k]]
        ELSE s[k]]

\* a || b || c
truthy(v) == v # Undefined /\ v # <<>>
or3(a, b, c) == IF truthy(a) THEN a ELSE IF truthy(b) THEN b ELSE c

(***************************************************************************)
(* State                                                                   *)
(***************************************************************************)
VARIABLES
    sessions,   \* the Map sessions: session id -> reference into heap
    heap,       \* the session objects ever created, by reference
    now,        \* the wall clock, in milliseconds
    req,        \* the requests the server handles, by request id
    wire,       \* per request, the frames written with res.write, in order
    conn,       \* per request, whether the client's connection is still open
    cfg,        \* the client's configuration and environment
    cl,         \* ChatbotAPI: the state of the client's one request
    chunks,     \* the calls of onChunk so far, in order
    ui,         \* ChatWindow: isTyping, error, messages
    gen         \* a backend process: its credential and its call of the model

serverVars == <<sessions, heap, now, req, wire, conn>>
clientVars == <<cfg, cl, chunks, ui>>
vars == <<sessions, heap, now, req, wire, conn, cfg, cl, chunks, ui, gen>>

(***************************************************************************)
(* Session management                                                      *)
(***************************************************************************)
timeout == 30 * 60 * 1000
checkEvery == 5 * 60 * 1000

newSession(sessionId) ==
    [id |-> sessionId, chatHistory |-> <<>>, createdAt |-> now, lastActivity |-> now]

\* getOrCreateSession as it would be without the sessions.has test
getOrCreateSessionAlwaysSets(sessionId) ==
    LET ref == Len(heap) + 1
    IN  [sessions |-> [id \in DOMAIN sessions \cup {sessionId} |->
                          IF id = sessionId THEN ref ELSE sessions[id]],
         heap     |-> Append(heap, newSession(sessionId)),
         session  |-> ref]

\* the result is the store and the heap after the call, and the session returned
getOrCreateSession(sessionId) ==
    LET has == sessionId \in DOMAIN sessions
        ref == IF has THEN sessions[sessionId] ELSE Len(heap) + 1
        h1  == IF has THEN heap ELSE Append(heap, newSession(sessionId))
    IN  [sessions |-> IF has THEN sessions ELSE sessions @@ (sessionId :> ref),
         heap     |-> [h1 EXCEPT ![ref].lastActivity = now],
         session  |-> ref]

\* the sweep's test as it would be with >= for >
expiredAtTimeout(session, date) == date - session.lastActivity >= timeout

\* the sweep's test on one session, date being the time of the sweep
expired(session, date) == date - session.lastActivity > timeout

(***************************************************************************)
(* The remote model and generateGeminiResponse                             *)
(***************************************************************************)
ErrApiKey == <<"API", " ", "key", " ", "not", " ", "valid">>
ErrNetwork == <<"fetch", " ", "failed">>

Answer(text) == [threw |-> FALSE, value |-> text]
Throw(message) == [threw |-> TRUE, value |-> message]

\* the fallback text of the catch block
ApiKeyFallback ==
    <<"I'm", " ", "currently", " ", "unable", " ", "to", " ", "connect", " ",
      "to", " ", "the", " ", "Gemini", " ", "AI", " ", "service.", " ",
      "Please", " ", "ensure", " ", "your", " ", "API", " ", "key", " ", "is",
      " ", "configured", " ", "correctly", " ", "in", " ", "the", " ", ".env",
      " ", "file.", " ", "\n\nFor", " ", "now,", " ", "I", " ", "can", " ",
      "tell", " ", "you", " ", "about", " ", "the", " ", "Sayonara", " ",
      "platform:", " ", "We", " ", "provide", " ", "military-grade", " ",
      "data", " ", "wiping", " ", "with", " ", "blockchain", " ",
      "verification,", " ", "ensuring", " ", "your", " ", "data", " ", "is",
      " ", "completely", " ", "and", " ", "verifiably", " ", "erased", " ",
      "before", " ", "device", " ", "recycling", " ", "or", " ", "resale.">>

\* the result of the call, given what chat.sendMessage / result.response did
generateGeminiResponse(remote) ==
    IF ~remote.threw THEN remote
    ELSE IF includes(remote.value, <<"API", " ", "key">>)
         THEN Answer(ApiKeyFallback)
         ELSE remote

\* what the remote model does in the requests of the streaming pipeline
RemoteOutcomes == {Answer(t) : t \in Texts} \cup {Throw(ErrNetwork)}

\* what it does in the requests on the session store
SessionOutcomes == {Answer(<<"a">>), Throw(ErrNetwork)}

\* what it does besides in the one-shot request of the pipeline
ChatOutcomes == {Throw(ErrApiKey)}

\* the response of a request that has none yet
NoResponse == [status |-> 0, text |-> Undefined, message |-> Undefined]

(***************************************************************************)
(* The knowledge base and searchKnowledgeBase                              *)
(*                                                                         *)
(* Topics, keywords and queries are spelled character by character, so     *)
(* that includes is the substring test of the code; the content of an      *)
(* entry is one token.                                                     *)
(***************************************************************************)

topic_NIST ==
    <<"N", "I", "S", "T", " ", "8", "0", "0", "-", "8", "8">>

content_NIST ==
    <<"NIST 800-88 Rev.1 provides comprehensive guidelines for media sanitization. [...]">>

keywords_NIST ==
    <<<<"N", "I", "S", "T">>,
      <<"s", "t", "a", "n", "d", "a", "r", "d", "s">>,
      <<"s", "a", "n", "i", "t", "i", "z", "a", "t", "i", "o", "n">>,
      <<"s", "e", "c", "u", "r", "i", "t", "y">>,
      <<"g", "u", "i", "d", "e", "l", "i", "n", "e", "s">>>>

topic_Blockchain ==
    <<"B", "l", "o", "c", "k", "c", "h", "a", "i", "n", " ", "V", "e", "r",
      "i", "f", "i", "c", "a", "t", "i", "o", "n">>

content_Blockchain ==
    <<"Our blockchain verification system uses Ethereum's Sepolia testnet [...]">>

keywords_Blockchain ==
    <<<<"b", "l", "o", "c", "k", "c", "h", "a", "i", "n">>,
      <<"v", "e", "r", "i", "f", "i", "c", "a", "t", "i", "o", "n">>,
      <<"c", "e", "r", "t", "i", "f", "i", "c", "a", "t", "e">>,
      <<"e", "t", "h", "e", "r", "e", "u", "m">>,
      <<"s", "e", "p", "o", "l", "i", "a">>,
      <<"p", "r", "o", "o", "f">>>>

topic_DualPhase ==
    <<"D", "u", "a", "l", "-", "P", "h", "a", "s", "e", " ", "S", "a", "n",
      "i", "t", "i", "z", "a", "t", "i", "o", "n">>

content_DualPhase ==
    <<"The dual-phase sanitization process first overwrites all sectors with random data [...]">>

keywords_DualPhase ==
    <<<<"d", "u", "a", "l", "-", "p", "h", "a", "s", "e">>,
      <<"s", "a", "n", "i", "t", "i", "z", "a", "t", "i", "o", "n">>,
      <<"o", "v", "e", "r", "w", "r", "i", "t", "e">>,
      <<"s", "e", "c", "u", "r", "e">>,
      <<"e", "r", "a", "s", "e">>,
      <<"S", "S", "D">>,
      <<"N", "V", "M", "e">>>>

topic_Wiping ==
    <<"D", "a", "t", "a", " ", "W", "i", "p", "i", "n", "g", " ", "P", "r",
      "o", "c", "e", "s", "s">>

content_Wiping ==
    <<"The Sayonara data wiping process includes: 1) Device detection and identification, [...]">>

keywords_Wiping ==
    <<<<"w", "i", "p", "i", "n", "g">>,
      <<"p", "r", "o", "c", "e", "s", "s">>,
      <<"s", "t", "e", "p", "s">>,
      <<"f", "o", "r", "e", "n", "s", "i", "c">>,
      <<"r", "e", "c", "o", "v", "e", "r", "y">>,
      <<"c", "e", "r", "t", "i", "f", "i", "c", "a", "t", "e">>>>

topic_Environmental ==
    <<"E", "n", "v", "i", "r", "o", "n", "m", "e", "n", "t", "a", "l", " ",
      "I", "m", "p", "a", "c", "t">>

content_Environmental ==
    <<"Secure data wiping enables safe recycling and resale of IT assets, [...]">>

keywords_Environmental ==
    <<<<"e", "n", "v", "i", "r", "o", "n", "m", "e", "n", "t", "a", "l">>,
      <<"i", "m", "p", "a", "c", "t">>,
      <<"r", "e", "c", "y", "c", "l", "i", "n", "g">>,
      <<"e", "-", "w", "a", "s", "t", "e">>,
      <<"C", "O", "2">>,
      <<"s", "u", "s", "t", "a", "i", "n", "a", "b", "i", "l", "i", "t",
          "y">>>>

\* Object.entries(knowledgeBase), in insertion order
knowledgeBase ==
    <<[topic |-> topic_NIST, content |-> content_NIST, keywords |-> keywords_NIST],
      [topic |-> topic_Blockchain, content |-> content_Blockchain, keywords |-> keywords_Blockchain],
      [topic |-> topic_DualPhase, content |-> content_DualPhase, keywords |-> keywords_DualPhase],
      [topic |-> topic_Wiping, content |-> content_Wiping, keywords |-> keywords_Wiping],
      [topic |-> topic_Environmental, content |-> content_Environmental, keywords |-> keywords_Environmental]>>

\* the pieces the queries of the model are put together from
Fragments ==
    {<<"D", "u", "a", "l", "-", "P", "h", "a", "s", "e", " ", "S", "a",
       "n", "i", "t", "i", "z", "a", "t", "i", "o", "n">>,
     <<"s", "a", "n", "i", "t", "i", "z", "a", "t", "i", "o", "n">>,
     <<"c", "e", "r", "t", "i", "f", "i", "c", "a", "t", "e">>,
     <<"e", "r", "a", "s", "e", "d">>,
     <<"i", "m", "p", "a", "c", "t">>,
     <<"x">>}

\* the queries: up to MaxFragments fragments, one after the other
RECURSIVE QueriesOf(_)
QueriesOf(n) ==
    IF n = 0 THEN {<<>>}
    ELSE {q \o f : q \in QueriesOf(n - 1), f \in Fragments}

Queries == UNION {QueriesOf(n) : n \in 0..MaxFragments}

\* data.keywords.reduce(...): one for each keyword the query includes
RECURSIVE relevanceScore(_, _, _)
relevanceScore(keywords, queryLower, score) ==
    IF keywords = <<>> THEN score
    ELSE relevanceScore(Tail(keywords), queryLower,
                        score + (IF includes(queryLower, toLowerCase(keywords[1]))
                                 THEN 1 ELSE 0))

\* queryLower.includes(topic.toLowerCase())
topicMatches(topic, queryLower) == includes(queryLower, toLowerCase(topic))

\* the test of the push as it would be if it let every entry through
isCandidateAlways(entry, queryLower) == TRUE

\* the test that guards results.push
isCandidate(entry, queryLower) ==
    relevanceScore(entry.keywords, queryLower, 0) > 0
        \/ topicMatches(entry.topic, queryLower)

\* the relevance as it would be if the topic's 5 replaced the keyword count
relevanceTopicReplaces(entry, queryLower) ==
    IF topicMatches(entry.topic, queryLower) THEN 5
    ELSE relevanceScore(entry.keywords, queryLower, 0)

\* the relevance of the pushed result
relevance(entry, queryLower) ==
    relevanceScore(entry.keywords, queryLower, 0)
        + (IF topicMatches(entry.topic, queryLower) THEN 5 ELSE 0)

\* the loop over the entries: results after the entries given
RECURSIVE pushResults(_, _, _)
pushResults(entries, queryLower, results) ==
    IF entries = <<>> THEN results
    ELSE pushResults(Tail(entries), queryLower,
            IF isCandidate(entries[1], queryLower)
            THEN Append(results, [topic |-> entries[1].topic,
                                  content |-> entries[1].content,
                                  relevance |-> relevance(entries[1], queryLower)])
            ELSE results)

\* the sort as it would be if it left the results in the order of the push
sortKeepsPushOrder(results) == results

\* results.sort((a, b) => b.relevance - a.relevance): descending; the sort
\* of the engine is stable
RECURSIVE sortByRelevance(_)
sortByRelevance(results) ==
    IF results = <<>> THEN <<>>
    ELSE LET n == Len(results)
             sorted == sortByRelevance(SubSeq(results, 1, n - 1))
             p == Cardinality({k \in 1..Len(sorted) :
                                  sorted[k].relevance >= results[n].relevance})
         IN  SubSeq(sorted, 1, p) \o <<results[n]>> \o SubSeq(sorted, p + 1, Len(sorted))

searchKnowledgeBase(query) ==
    slice(sortByRelevance(pushResults(knowledgeBase, toLowerCase(query), <<>>)), 3)

(***************************************************************************)
(* generateGeminiResponse: the prompt and the generation options           *)
(***************************************************************************)
\* a config object: a function on the fields it has
EmptyConfig == [f \in {} |-> 0]

\* the config objects the callers pass, temperatures in hundredths: none
\* (the stream handler), those of /api/langchain and /api/rag, and the one
\* ChatbotAPI.sendMessage builds from the client's configuration
Configs ==
    {EmptyConfig,
     [temperature |-> 30, maxTokens |-> 2048],
     [temperature |-> 50, ragEnabled |-> FALSE]}
        \cup {[maxTokens |-> 1, temperature |-> temperature, ragEnabled |-> rag] :
                  temperature \in {0, 100}, rag \in BOOLEAN}

\* config.ragEnabled as a condition
ragEnabled(config) == "ragEnabled" \in DOMAIN config /\ config.ragEnabled = TRUE

\* config[field] || fallback, on numbers
orNumber(config, field, fallback) ==
    IF field \in DOMAIN config /\ config[field] # 0 THEN config[field] ELSE fallback

\* the generationConfig given to startChat; temperature and topP in hundredths
generationConfig(config) ==
    [maxOutputTokens |-> orNumber(config, "maxTokens", 2048),
     temperature |-> orNumber(config, "temperature", 70),
     topP |-> 95, topK |-> 40]

systemPrompt == <<"You are the Sayonara AI Assistant, [...] emphasize security and compliance.">>
promptQuestion == <<"\nQuestion: ">>
promptKnowledge == <<"\n\nRelevant Knowledge Base Information:\n">>
promptPlease == <<"\n\nPlease provide a comprehensive answer [...] platform.\n                ">>

\* ragResults.map(r => `${r.topic}: ${r.content}`).join('\n\n')
RECURSIVE knowledgeBlock(_)
knowledgeBlock(ragResults) ==
    IF ragResults = <<>> THEN <<>>
    ELSE LET line == ragResults[1].topic \o <<": ">> \o ragResults[1].content
         IN  IF Len(ragResults) = 1 THEN line
             ELSE line \o <<"\n\n">> \o knowledgeBlock(Tail(ragResults))

\* the prompt as it would be if the knowledge block did not depend on
\* config.ragEnabled
enhancedPromptAlwaysSearches(message, config) ==
    LET ragResults == searchKnowledgeBase(message)
    IN  IF Len(ragResults) > 0
        THEN promptQuestion \o message \o promptKnowledge
                 \o knowledgeBlock(ragResults) \o promptPlease
        ELSE message

enhancedPrompt(message, config) ==
    IF ragEnabled(config)
    THEN LET ragResults == searchKnowledgeBase(message)
         IN  IF Len(ragResults) > 0
             THEN promptQuestion \o message \o promptKnowledge
                      \o knowledgeBlock(ragResults) \o promptPlease
             ELSE message
    ELSE message

\* the argument of chat.sendMessage
prompt(message, config) == systemPrompt \o <<"\n\n">> \o enhancedPrompt(message, config)

(***************************************************************************)
(* The backend processes: start-up and the calls of the remote model       *)
(***************************************************************************)
RealKey == <<"AIza...">>
PlaceholderKey == <<"YOUR_GEMINI_API_KEY_HERE">>
DemoKey == <<"demo-key">>

\* process.env.GEMINI_API_KEY
Keys == {Undefined, PlaceholderKey, RealKey}

NoResult == [threw |-> FALSE, value |-> Undefined]

\* request is the request the process receives: the arguments of its call of
\* generateGeminiResponse, or the body of its POST /api/chat
NoGen ==
    [backend |-> "part_000", key |-> RealKey,
     request |-> [endpoint |-> "generate", message |-> <<>>,
                  config |-> EmptyConfig,
                  body |-> [has |-> FALSE, chatHistory |-> <<>>]],
     pc |-> "boot", apiKey |-> Undefined,
     calledRemote |-> FALSE, message |-> <<>>, config |-> EmptyConfig,
     searched |-> FALSE, ragResults |-> <<>>, prompt |-> <<>>,
     generationConfig |-> [maxOutputTokens |-> 0, temperature |-> 0,
                           topP |-> 0, topK |-> 0],
     result |-> NoResult, response |-> NoResponse,
     searches |-> 0, results |-> <<>>, hasSources |-> FALSE, sources |-> <<>>]

\* what the remote model does with a call made with the given key
GenerationOutcomes(apiKey) ==
    IF apiKey = RealKey THEN {Answer(<<"a">>), Throw(ErrNetwork)}
    ELSE {Throw(ErrApiKey), Throw(ErrNetwork)}

\* part_000 from its first line to app.listen
Startup ==
    /\ gen.backend = "part_000" /\ gen.pc = "boot"
    /\ gen' = [gen EXCEPT !.pc = "serving",
                          !.apiKey = IF truthy(gen.key) THEN gen.key ELSE DemoKey]
    /\ UNCHANGED <<serverVars, clientVars>>

\* generateGeminiResponse up to the await of chat.sendMessage
GenerateCall(message, config) ==
    /\ gen.backend = "part_000" /\ gen.pc = "serving"
    /\ gen' = [gen EXCEPT !.pc = "awaiting", !.calledRemote = TRUE,
                          !.message = message, !.config = config,
                          !.searched = ragEnabled(config),
                          !.ragResults = IF ragEnabled(config)
                                         THEN searchKnowledgeBase(message)
                                         ELSE <<>>,
                          !.prompt = prompt(message, config),
                          !.generationConfig = generationConfig(config),
                          !.result = NoResult]
    /\ UNCHANGED <<serverVars, clientVars>>

\* generateGeminiResponse from the await to its return or throw
GenerateReturn(remote) ==
    /\ gen.backend = "part_000" /\ gen.pc = "awaiting"
    /\ gen' = [gen EXCEPT !.pc = "serving", !.result = generateGeminiResponse(remote)]
    /\ UNCHANGED <<serverVars, clientVars>>

\* the answer of POST /api/rag to a query that matches nothing
NoRelevantInformation == <<"No relevant information found in the knowledge base.">>

ragQuestion ==
    <<"\n        Based on the following information from our knowledge base, answer this query: ">>

\* the template literal of POST /api/rag
ragPrompt(query, results) ==
    ragQuestion \o query \o <<"\n        \n        ">>
        \o knowledgeBlock(results) \o <<"\n        ">>

\* the options POST /api/rag would pass if it left the search of
\* generateGeminiResponse on
ragConfigSearchesAgain == [temperature |-> 50, ragEnabled |-> TRUE]

\* the options POST /api/rag passes to generateGeminiResponse
ragConfig == [temperature |-> 50, ragEnabled |-> FALSE]

\* results.map(r => ({topic, relevance})) as it would be without the relevance
sourcesWithoutRelevance(results) ==
    [i \in 1..Len(results) |-> [topic |-> results[i].topic, relevance |-> 0]]

\* results.map(r => ({topic: r.topic, relevance: r.relevance}))
sourcesOf(results) ==
    [i \in 1..Len(results) |->
        [topic |-> results[i].topic, relevance |-> results[i].relevance]]

\* POST /api/rag up to its answer to a query without results, or up to the
\* await of chat.sendMessage inside generateGeminiResponse; searches counts
\* the calls of searchKnowledgeBase made for the request
RagCall(query) ==
    /\ gen.backend = "part_000" /\ gen.pc = "serving"
    /\ LET results == searchKnowledgeBase(query)
           message == ragPrompt(query, results)
       IN  gen' = IF Len(results) = 0
                  THEN [gen EXCEPT !.results = results, !.searches = 1,
                                   !.response = [status |-> 200,
                                                 text |-> NoRelevantInformation,
                                                 message |-> Undefined],
                                   !.hasSources = TRUE, !.sources = <<>>]
                  ELSE [gen EXCEPT !.pc = "ragAwaiting", !.calledRemote = TRUE,
                                   !.results = results,
                                   !.searches = 1 + (IF ragEnabled(ragConfig)
                                                     THEN 1 ELSE 0),
                                   !.message = message, !.config = ragConfig,
                                   !.searched = ragEnabled(ragConfig),
                                   !.ragResults = IF ragEnabled(ragConfig)
                                                  THEN searchKnowledgeBase(message)
                                                  ELSE <<>>,
                                   !.prompt = prompt(message, ragConfig),
                                   !.generationConfig = generationConfig(ragConfig),
                                   !.result = NoResult,
                                   !.response = NoResponse,
                                   !.hasSources = FALSE, !.sources = <<>>]
    /\ UNCHANGED <<serverVars, clientVars>>

\* POST /api/rag from the await to its response
RagReturn(remote) ==
    /\ gen.backend = "part_000" /\ gen.pc = "ragAwaiting"
    /\ LET result == generateGeminiResponse(remote)
       IN  gen' = IF result.threw
                  THEN [gen EXCEPT !.pc = "serving", !.result = result,
                                   !.response = [status |-> 500, text |-> Undefined,
                                                 message |-> result.value]]
                  ELSE [gen EXCEPT !.pc = "serving", !.result = result,
                                   !.response = [status |-> 200,
                                                 text |-> result.value,
                                                 message |-> Undefined],
                                   !.hasSources = TRUE,
                                   !.sources = sourcesOf(gen.results)]
    /\ UNCHANGED <<serverVars, clientVars>>

\* server.js from its first line to app.listen
LegacyStartup ==
    /\ gen.backend = "server.js" /\ gen.pc = "boot"
    /\ gen' = IF ~truthy(gen.key) \/ gen.key = PlaceholderKey
              THEN [gen EXCEPT !.pc = "exited"]
              ELSE [gen EXCEPT !.pc = "serving", !.apiKey = gen.key]
    /\ UNCHANGED <<serverVars, clientVars>>

\* the bodies of the requests to server.js: with or without chatHistory
LegacyBodies ==
    {[has |-> FALSE, chatHistory |-> <<>>],
     [has |-> TRUE, chatHistory |-> <<>>],
     [has |-> TRUE, chatHistory |-> <<[role |-> "user", text |-> MsgHello]>>]}

ErrContentsRequired == <<"contents are required">>
ErrLegacyFailed == <<"Failed to communicate with the Gemini API.">>
LegacyNoText == <<"I was unable to generate a response.">>

\* POST /api/chat of server.js up to the await of generateContent
LegacyChat(body) ==
    /\ gen.backend = "server.js" /\ gen.pc = "serving"
    /\ gen' = IF ~body.has \/ Len(body.chatHistory) = 0
              THEN [gen EXCEPT !.response = [status |-> 400, text |-> Undefined,
                                             message |-> ErrContentsRequired]]
              ELSE [gen EXCEPT !.pc = "awaiting", !.calledRemote = TRUE,
                               !.response = NoResponse]
    /\ UNCHANGED <<serverVars, clientVars>>

\* POST /api/chat of server.js from the await to the response
LegacyReturn(remote) ==
    /\ gen.backend = "server.js" /\ gen.pc = "awaiting"
    /\ gen' = IF ~remote.threw
              THEN [gen EXCEPT !.pc = "serving",
                       !.response = [status |-> 200,
                                     text |-> IF truthy(remote.value)
                                              THEN remote.value ELSE LegacyNoText,
                                     message |-> Undefined]]
              ELSE [gen EXCEPT !.pc = "serving",
                       !.response = [status |-> 500, text |-> Undefined,
                                     message |-> ErrLegacyFailed]]
    /\ UNCHANGED <<serverVars, clientVars>>

LegacyOutcomes == {Answer(<<"a">>), Answer(<<>>), Throw(ErrNetwork)}

(***************************************************************************)
(* Requests on the server                                                  *)
(***************************************************************************)
NoReq ==
    [kind |-> "none", pc |-> "none", sessionId |-> Undefined,
     message |-> Undefined, session |-> 0, words |-> <<>>, i |-> 0,
     responseText |-> Undefined, currentText |-> <<>>, response |-> NoResponse,
     inFlightAtStart |-> {}, history |-> <<>>]

\* an entry of chatHistory; by is the request that pushed it (not in the
\* code: it tells the turns of two requests with equal texts apart)
Turn(role, text, r) == [role |-> role, text |-> text, by |-> r]

\* the requests that are suspended at an await (not in the code: recorded in
\* a request when it starts, to tell which requests overlapped)
InFlight == {q \in ReqIds : req[q].pc \in {"gen", "delay"}}

\* requests take the slots in order
Free(r) == req[r].kind = "none" /\ \A q \in {p \in ReqIds : p < r} : req[q].kind # "none"

ErrTypeError == <<"TypeError">>

\* the chatHistory of the body of a POST /api/chat: absent, or an array
NoChatHistory == [has |-> FALSE, chatHistory |-> <<>>]
ChatHistory(entries) == [has |-> TRUE, chatHistory |-> entries]

\* POST /api/chat up to the await of generateGeminiResponse; history is the
\* array given to generateGeminiResponse, chatHistory || session.chatHistory,
\* as it is when the model is called
ChatStart(r, header, message, body) ==
    LET sessionId == IF header = Undefined THEN DefaultSessionId ELSE header
        got == getOrCreateSession(sessionId)
        pushed == Append(got.heap[got.session].chatHistory,
                         Turn("user", message, r))
    IN  /\ Free(r)
        /\ conn' = [conn EXCEPT ![r] = TRUE]
        /\ UNCHANGED <<now, wire>>
        /\ IF message = Undefined
           THEN \* message.substring throws before the session is resolved
                /\ req' = [req EXCEPT ![r] =
                      [NoReq EXCEPT !.kind = "chat", !.pc = "done",
                                    !.sessionId = sessionId,
                                    !.inFlightAtStart = InFlight,
                                    !.response = [status |-> 500, text |-> Undefined,
                                                  message |-> ErrTypeError]]]
                /\ UNCHANGED <<sessions, heap>>
           ELSE /\ sessions' = got.sessions
                /\ heap' = [got.heap EXCEPT ![got.session].chatHistory = pushed]
                /\ req' = [req EXCEPT ![r] =
                      [NoReq EXCEPT !.kind = "chat", !.pc = "gen",
                                    !.sessionId = sessionId, !.message = message,
                                    !.session = got.session,
                                    !.inFlightAtStart = InFlight,
                                    !.history = IF body.has THEN body.chatHistory
                                                ELSE pushed]]

\* the rest of POST /api/chat as it would be if it wrote back the history it
\* passed to the model and the answer (last write wins)
ChatGeneratedWritesBack(r, remote) ==
    LET result == generateGeminiResponse(remote)
        own == SelectSeq(heap[req[r].session].chatHistory, LAMBDA t : t.by = r)
    IN  /\ req[r].kind = "chat" /\ req[r].pc = "gen"
        /\ IF ~result.threw
           THEN /\ heap' = [heap EXCEPT ![req[r].session].chatHistory =
                                Append(own, Turn("model", result.value, r))]
                /\ req' = [req EXCEPT ![r].pc = "done",
                                      ![r].responseText = result.value,
                                      ![r].response = [status |-> 200,
                                                       text |-> result.value,
                                                       message |-> Undefined]]
           ELSE /\ heap' = heap
                /\ req' = [req EXCEPT ![r].pc = "done",
                                      ![r].response = [status |-> 500,
                                                       text |-> Undefined,
                                                       message |-> result.value]]
        /\ UNCHANGED <<sessions, now, wire, conn>>

\* POST /api/chat from the await to the response
ChatGenerated(r, remote) ==
    LET result == generateGeminiResponse(remote)
    IN  /\ req[r].kind = "chat" /\ req[r].pc = "gen"
        /\ IF ~result.threw
           THEN /\ heap' = [heap EXCEPT ![req[r].session].chatHistory =
                                Append(@, Turn("model", result.value, r))]
                /\ req' = [req EXCEPT ![r].pc = "done",
                                      ![r].responseText = result.value,
                                      ![r].response = [status |-> 200,
                                                       text |-> result.value,
                                                       message |-> Undefined]]
           ELSE /\ heap' = heap
                /\ req' = [req EXCEPT ![r].pc = "done",
                                      ![r].response = [status |-> 500,
                                                       text |-> Undefined,
                                                       message |-> result.value]]
        /\ UNCHANGED <<sessions, now, wire, conn>>

\* a frame of the event stream: the object given to JSON.stringify
ContentFrame(content, done) == [content |-> content, done |-> done]
ErrorFrame(message) == [error |-> message, done |-> TRUE]

\* GET /api/chat/stream up to the await of generateGeminiResponse
StreamStart(r, header, message) ==
    LET sessionId == IF header = Undefined THEN DefaultSessionId ELSE header
        got == getOrCreateSession(sessionId)
    IN  /\ Free(r)
        /\ conn' = [conn EXCEPT ![r] = TRUE]
        /\ sessions' = got.sessions
        /\ heap' = got.heap
        /\ req' = [req EXCEPT ![r] =
              [NoReq EXCEPT !.kind = "stream", !.pc = "gen",
                            !.sessionId = sessionId, !.message = message,
                            !.session = got.session,
                            !.inFlightAtStart = InFlight,
                            !.history = got.heap[got.session].chatHistory]]
        /\ UNCHANGED <<now, wire>>

\* one pass of the word loop, up to the await of the delay
WriteWord(r, responseText, words, i, currentText) ==
    LET text == currentText \o (IF i > 0 THEN <<" ">> ELSE <<>>) \o words[i + 1]
    IN  /\ wire' = [wire EXCEPT ![r] =
                      Append(@, ContentFrame(text, i = Len(words) - 1))]
        /\ req' = [req EXCEPT ![r].pc = "delay", ![r].responseText = responseText,
                              ![r].words = words, ![r].i = i,
                              ![r].currentText = text]

\* GET /api/chat/stream from the await of the model to the first delay, or
\* through the catch block
StreamGenerated(r, remote) ==
    LET result == generateGeminiResponse(remote)
    IN  /\ req[r].kind = "stream" /\ req[r].pc = "gen"
        /\ IF ~result.threw
           THEN WriteWord(r, result.value, split(result.value), 0, <<>>)
           ELSE /\ wire' = [wire EXCEPT ![r] = Append(@, ErrorFrame(result.value))]
                /\ req' = [req EXCEPT ![r].pc = "done"]
        /\ UNCHANGED <<sessions, heap, now, conn>>

\* the delay's timer fires: the next pass of the loop, or res.end()
StreamTimer(r) ==
    /\ req[r].kind = "stream" /\ req[r].pc = "delay"
    /\ IF req[r].i + 1 < Len(req[r].words)
       THEN WriteWord(r, req[r].responseText, req[r].words, req[r].i + 1,
                      req[r].currentText)
       ELSE /\ req' = [req EXCEPT ![r].pc = "done", ![r].i = @ + 1]
            /\ wire' = wire
    /\ UNCHANGED <<sessions, heap, now, conn>>

(***************************************************************************)
(* The client: ChatbotAPI and the callbacks of ChatWindow                  *)
(***************************************************************************)
responses_wiping ==
    <<"The", " ", "Sayonara", " ", "platform", " ", "uses", " ",
      "military-grade", " ", "NIST", " ", "800-88", " ", "compliant", " ",
      "data", " ", "sanitization.", " ", "Our", " ", "dual-phase", " ",
      "process", " ", "ensures", " ", "complete", " ", "erasure", " ",
      "with", " ", "blockchain", " ", "verification.">>

responses_blockchain ==
    <<"Each", " ", "data", " ", "wipe", " ", "generates", " ", "a", " ",
      "tamper-proof", " ", "certificate", " ", "stored", " ", "on", " ",
      "the", " ", "Ethereum", " ", "Sepolia", " ", "testnet.", " ", "This",
      " ", "provides", " ", "immutable", " ", "proof", " ", "of", " ",
      "compliance.">>

responses_rag ==
    <<"Our", " ", "RAG", " ", "(Retrieval", " ", "Augmented", " ",
      "Generation)", " ", "system", " ", "enhances", " ", "responses", " ",
      "with", " ", "real-time", " ", "data", " ", "from", " ", "our", " ",
      "knowledge", " ", "base", " ", "about", " ", "secure", " ", "data",
      " ", "wiping", " ", "procedures.">>

responses_default ==
    <<"I", " ", "understand", " ", "your", " ", "query", " ", "about", " ",
      "the", " ", "Sayonara", " ", "data", " ", "wiping", " ", "solution.",
      " ", "Our", " ", "platform", " ", "offers", " ", "comprehensive", " ",
      "secure", " ", "erasure", " ", "with", " ", "AI", " ", "guidance", " ",
      "and", " ", "blockchain", " ", "verification.">>

\* the choice of the canned response in demoStream
demoResponse(message) ==
    LET lower == toLowerCase(message)
    IN  IF includes(lower, <<"w", "i", "p">>) THEN responses_wiping
        ELSE IF includes(lower, <<"b", "l", "o", "c", "k", "c", "h", "a", "i", "n">>)
             THEN responses_blockchain
        ELSE IF includes(lower, <<"r", "a", "g">>) THEN responses_rag
        ELSE responses_default

\* the session id the client generated in its constructor
ClientSessionId == <<"s1">>

\* ids of the messages of ChatWindow: the welcome message, Date.now() of the
\* user message, and tempId = Date.now() + 1
WelcomeId == 1
UserMessageId == 2
tempId == 3

Null == "null"
StreamErrorText == "Failed to get response. Please check your API configuration."
SendErrorText == "Failed to send message. Please check your connection and API configuration."

Message(id, content, isUser) == [id |-> id, content |-> content, isUser |-> isUser]

NoClient ==
    [pc |-> "idle", message |-> Undefined, eventSource |-> "none", read |-> 0,
     interval |-> "none", response |-> <<>>, words |-> <<>>, index |-> 0,
     cleanup |-> "none", cancelled |-> FALSE, threw |-> FALSE]

\* sent is not in the code: the arguments of each call of api.streamMessage
NoUi ==
    [isTyping |-> FALSE, error |-> Null,
     messages |-> <<Message(WelcomeId, <<"Welcome">>, FALSE)>>,
     chatHistory |-> <<>>, sent |-> <<>>]

\* ChatProvider.addMessage
addMessage(u, message) == [u EXCEPT !.chatHistory = Append(@, message)]

\* the chunk callback handleSendMessage gives to streamMessage, applied to u
onChunkUi(u, chunk, done) ==
    IF ~done
    THEN [u EXCEPT !.messages =
            IF \E k \in 1..Len(@) : @[k].id = tempId
            THEN [k \in 1..Len(@) |->
                    IF @[k].id = tempId THEN [@[k] EXCEPT !.content = chunk] ELSE @[k]]
            ELSE Append(@, Message(tempId, chunk, FALSE))]
    ELSE addMessage([u EXCEPT !.isTyping = FALSE], Message(tempId, chunk, FALSE))

onChunk(chunk, done) ==
    /\ chunks' = Append(chunks, [content |-> chunk, isFinal |-> done])
    /\ ui' = onChunkUi(ui, chunk, done)

\* the error callback handleSendMessage gives to streamMessage
onError(u) == [u EXCEPT !.error = StreamErrorText, !.isTyping = FALSE]

\* demoStream up to its return: the interval is armed
demoStream(c, message) ==
    [c EXCEPT !.response = demoResponse(message),
              !.words = split(demoResponse(message)),
              !.index = 0,
              !.interval = "armed"]

\* the chatHistory handleSendMessage builds from the messages on display
chatHistoryOf(messages) ==
    [k \in 1..Len(messages) |->
        [role |-> IF messages[k].isUser THEN "user" ELSE "model",
         text |-> messages[k].content]]

\* handleSendMessage on the state of ChatWindow, up to the call of
\* api.streamMessage, for a message that is no slash command; id stands for
\* Date.now()
handleSendMessage(u, message, id) ==
    addMessage([u EXCEPT !.messages = Append(@, Message(id, message, TRUE)),
                         !.error = Null, !.isTyping = TRUE,
                         !.sent = Append(@, [message |-> message,
                                             chatHistory |-> chatHistoryOf(u.messages)])],
               Message(id, message, TRUE))

\* handleSendMessage with a message that is no slash command, through
\* streamMessage up to its first await or its return
Send(message) ==
    LET u == handleSendMessage(ui, message, UserMessageId)
    IN  /\ cl.pc = "idle"
        /\ ui' = u
        /\ chunks' = chunks
        /\ cfg' = cfg
        /\ gen' = gen
        /\ IF ~cfg.ENABLE_STREAMING
           THEN \* sendMessage: the POST reaches the server
                /\ cl' = [cl EXCEPT !.pc = "posting", !.message = message]
                /\ ChatStart(1, ClientSessionId, message,
                             ChatHistory(chatHistoryOf(ui.messages)))
           ELSE IF ~cfg.hasEventSource
           THEN \* new EventSource throws: the catch returns demoStream's cancel
                /\ cl' = [demoStream(cl, message) EXCEPT
                              !.pc = "returned", !.message = message,
                              !.cleanup = "clearInterval"]
                /\ UNCHANGED serverVars
           ELSE \* the event source is open and its request reaches the server
                /\ cl' = [cl EXCEPT !.pc = "returned", !.message = message,
                                    !.eventSource = "open",
                                    !.cleanup = "closeEventSource"]
                /\ StreamStart(1, ClientSessionId, message)

\* the user sends a further message through the Composer, which is enabled
\* while isTyping is false; the request it issues has not reached the server
\* and none of its callbacks has run
SendLater ==
    /\ cl.pc # "idle"
    /\ ~ui.isTyping
    /\ Len(ui.sent) < MaxSends
    /\ ui' = handleSendMessage(ui, MsgHello, UserMessageId + 2 * Len(ui.sent))
    /\ UNCHANGED <<sessions, heap, now, req, wire, conn, cfg, gen, cl, chunks>>

\* fetch rejects: sendMessage rethrows and handleSendMessage catches
FetchRejects ==
    /\ cl.pc = "posting"
    /\ cl' = [cl EXCEPT !.pc = "failed"]
    /\ ui' = [ui EXCEPT !.error = SendErrorText, !.isTyping = FALSE]
    /\ conn' = [conn EXCEPT ![1] = FALSE]
    /\ UNCHANGED <<sessions, heap, now, req, wire, cfg, gen, chunks>>

\* the response of POST /api/chat arrives: the rest of sendMessage and of the
\* non-streaming branch of streamMessage
PostResponse ==
    /\ cl.pc = "posting" /\ req[1].pc = "done"
    /\ IF req[1].response.status = 200
       THEN /\ onChunk(or3(req[1].response.text, req[1].response.text,
                           req[1].response.text), TRUE)
            /\ cl' = [cl EXCEPT !.pc = "returned", !.cleanup = "noop"]
       ELSE /\ cl' = [cl EXCEPT !.pc = "failed"]
            /\ ui' = [ui EXCEPT !.error = SendErrorText, !.isTyping = FALSE]
            /\ chunks' = chunks
    /\ UNCHANGED <<sessions, heap, now, req, wire, conn, cfg, gen>>

\* JSON.parse(event.data).content
contentOf(frame) == IF "content" \in DOMAIN frame THEN frame.content ELSE Undefined

\* onmessage as it would be without eventSource.close() on the terminal event
OnMessageKeepsOpen ==
    /\ cl.eventSource = "open"
    /\ cl.read < Len(wire[1])
    /\ cl' = [cl EXCEPT !.read = @ + 1]
    /\ conn' = conn
    /\ onChunk(contentOf(wire[1][cl.read + 1]), wire[1][cl.read + 1].done)
    /\ UNCHANGED <<sessions, heap, now, req, wire, cfg, gen>>

\* eventSource.onmessage with the next frame of the stream
OnMessage ==
    /\ cl.eventSource = "open"
    /\ cl.read < Len(wire[1])
    /\ LET data == wire[1][cl.read + 1]
       IN  IF data.done
           THEN /\ cl' = [cl EXCEPT !.read = @ + 1, !.eventSource = "closed"]
                /\ conn' = [conn EXCEPT ![1] = FALSE]
                /\ onChunk(contentOf(data), TRUE)
           ELSE /\ cl' = [cl EXCEPT !.read = @ + 1]
                /\ conn' = conn
                /\ onChunk(contentOf(data), FALSE)
    /\ UNCHANGED <<sessions, heap, now, req, wire, cfg, gen>>

\* eventSource.onerror: the transport reports an error
OnError ==
    /\ cl.eventSource = "open"
    /\ cl' = demoStream([cl EXCEPT !.eventSource = "closed"], cl.message)
    /\ conn' = [conn EXCEPT ![1] = FALSE]
    /\ ui' = onError(ui)
    /\ UNCHANGED <<sessions, heap, now, req, wire, cfg, gen, chunks>>

\* the interval's callback as it would be without clearInterval
DemoTickNeverCleared ==
    /\ cl.interval = "armed"
    /\ IF cl.index < Len(cl.words)
       THEN /\ onChunk(join(slice(cl.words, cl.index + 1)), FALSE)
            /\ cl' = [cl EXCEPT !.index = @ + 1]
       ELSE /\ cl' = cl
            /\ onChunk(cl.response, TRUE)
    /\ UNCHANGED <<sessions, heap, now, req, wire, conn, cfg, gen>>

\* the callback of demoStream's setInterval
DemoTick ==
    /\ cl.interval = "armed"
    /\ IF cl.index < Len(cl.words)
       THEN /\ onChunk(join(slice(cl.words, cl.index + 1)), FALSE)
            /\ cl' = [cl EXCEPT !.index = @ + 1]
       ELSE /\ cl' = [cl EXCEPT !.interval = "cleared"]
            /\ onChunk(cl.response, TRUE)
    /\ UNCHANGED <<sessions, heap, now, req, wire, conn, cfg, gen>>

\* the callback of demoStream's setInterval when the consumer's onChunk
\* raises: in the first branch index++ is not reached, in the second
\* clearInterval has run before the call; threw records that it raised
DemoTickThrows ==
    /\ cl.interval = "armed" /\ ~cl.threw
    /\ cl' = IF cl.index < Len(cl.words)
             THEN [cl EXCEPT !.threw = TRUE]
             ELSE [cl EXCEPT !.threw = TRUE, !.interval = "cleared"]
    /\ UNCHANGED <<sessions, heap, now, req, wire, conn, cfg, gen, chunks, ui>>

\* the caller invokes the function streamMessage returned
Cancel ==
    /\ cl.cleanup # "none" /\ ~cl.cancelled
    /\ cl' = [cl EXCEPT !.cancelled = TRUE,
                        !.eventSource = IF cl.cleanup = "closeEventSource" /\ @ = "open"
                                        THEN "closed" ELSE @,
                        !.interval = IF cl.cleanup = "clearInterval" /\ @ = "armed"
                                     THEN "cleared" ELSE @]
    /\ conn' = IF cl.cleanup = "closeEventSource"
               THEN [conn EXCEPT ![1] = FALSE] ELSE conn
    /\ UNCHANGED <<sessions, heap, now, req, wire, cfg, gen, chunks, ui>>

(***************************************************************************)
(* The periodic sweep                                                      *)
(***************************************************************************)
\* the sweep as it would be if it also emptied the histories it keeps
SweepEmptiesHistories ==
    /\ now < MaxTicks * checkEvery
    /\ now' = now + checkEvery
    /\ sessions' = [id \in {i \in DOMAIN sessions : ~expired(heap[sessions[i]], now')}
                        |-> sessions[id]]
    /\ heap' = [k \in 1..Len(heap) |-> [heap[k] EXCEPT !.chatHistory = <<>>]]
    /\ UNCHANGED <<req, wire, conn>>

\* the interval of setInterval elapses and its callback removes old sessions
Sweep ==
    /\ now < MaxTicks * checkEvery
    /\ now' = now + checkEvery
    /\ sessions' = [id \in {i \in DOMAIN sessions : ~expired(heap[sessions[i]], now')}
                        |-> sessions[id]]
    /\ UNCHANGED <<heap, req, wire, conn>>

(***************************************************************************)
(* Specifications                                                          *)
(***************************************************************************)
InitServer ==
    /\ sessions = [id \in {} |-> 0]
    /\ heap = <<>>
    /\ now = 0
    /\ req = [r \in ReqIds |-> NoReq]
    /\ wire = [r \in ReqIds |-> <<>>]
    /\ conn = [r \in ReqIds |-> FALSE]

InitClient ==
    /\ cl = NoClient
    /\ chunks = <<>>
    /\ ui = NoUi
    /\ gen = NoGen

\* the streaming pipeline: one request of ChatWindow
Init ==
    /\ InitServer
    /\ InitClient
    /\ cfg \in [ENABLE_STREAMING : BOOLEAN, hasEventSource : BOOLEAN]

ClientSend == \E m \in Messages : Send(m)
ChatAnswer ==
    /\ \E remote \in RemoteOutcomes \cup ChatOutcomes : ChatGenerated(1, remote)
    /\ UNCHANGED <<clientVars, gen>>
StreamAnswer ==
    /\ \E remote \in RemoteOutcomes : StreamGenerated(1, remote)
    /\ UNCHANGED <<clientVars, gen>>
StreamDelay ==
    /\ \E r \in ReqIds : StreamTimer(r)
    /\ UNCHANGED <<clientVars, gen>>

Next ==
    \/ ClientSend
    \/ FetchRejects
    \/ PostResponse
    \/ OnMessage
    \/ OnError
    \/ DemoTick
    \/ Cancel
    \/ ChatAnswer
    \/ StreamAnswer
    \/ StreamDelay

Spec == Init /\ [][Next]_vars

\* the session store: requests of several clients, the clock and the sweep
InitSession ==
    /\ InitServer
    /\ InitClient
    /\ cfg = [ENABLE_STREAMING |-> TRUE, hasEventSource |-> TRUE]

\* the messages of the requests of these clients
ServerMessages == {Undefined, MsgHello}

Sweeper == Sweep /\ UNCHANGED <<clientVars, gen>>
\* the chatHistory of the requests of these clients
ServerBodies == {NoChatHistory, ChatHistory(<<>>)}

ChatRequest ==
    /\ \E r \in ReqIds, h \in SessionHeaders, m \in ServerMessages,
          body \in ServerBodies : ChatStart(r, h, m, body)
    /\ UNCHANGED <<clientVars, gen>>
StreamRequest ==
    /\ \E r \in ReqIds, h \in SessionHeaders : StreamStart(r, h, MsgHello)
    /\ UNCHANGED <<clientVars, gen>>
SessionChatAnswer ==
    /\ \E r \in ReqIds, remote \in SessionOutcomes : ChatGenerated(r, remote)
    /\ UNCHANGED <<clientVars, gen>>
SessionStreamAnswer ==
    /\ \E r \in ReqIds, remote \in SessionOutcomes : StreamGenerated(r, remote)
    /\ UNCHANGED <<clientVars, gen>>

NextSession ==
    \/ Sweeper
    \/ ChatRequest
    \/ StreamRequest
    \/ SessionChatAnswer
    \/ SessionStreamAnswer
    \/ StreamDelay

SessionSpec == InitSession /\ [][NextSession]_vars

\* a conversation: the user sends a message through ChatWindow and, when the
\* Composer is enabled again, further ones
ConversationOutcomes == {Answer(<<"a", " ", "a">>), Throw(ErrNetwork)}

FirstSend == Send(MsgHello)
ConversationChatAnswer ==
    /\ \E remote \in ConversationOutcomes : ChatGenerated(1, remote)
    /\ UNCHANGED <<clientVars, gen>>
ConversationStreamAnswer ==
    /\ \E remote \in ConversationOutcomes : StreamGenerated(1, remote)
    /\ UNCHANGED <<clientVars, gen>>

NextConversation ==
    \/ FirstSend
    \/ SendLater
    \/ FetchRejects
    \/ PostResponse
    \/ OnMessage
    \/ OnError
    \/ DemoTick
    \/ Cancel
    \/ ConversationChatAnswer
    \/ ConversationStreamAnswer
    \/ StreamDelay

ConversationSpec == Init /\ [][NextConversation]_vars

\* one request of ChatWindow, which never calls the function streamMessage
\* returned, under the assumptions of its progress: the timers keep firing
\* (DemoTick, StreamDelay), the model answers or fails (the two answers),
\* and the transport delivers what the server sent unless it reports an
\* error (OnMessage, PostResponse)
NextLive ==
    \/ FirstSend
    \/ FetchRejects
    \/ PostResponse
    \/ OnMessage
    \/ OnError
    \/ DemoTick
    \/ ConversationChatAnswer
    \/ ConversationStreamAnswer
    \/ StreamDelay

LiveSpec ==
    /\ Init
    /\ [][NextLive]_vars
    /\ WF_vars(DemoTick)
    /\ WF_vars(StreamDelay)
    /\ WF_vars(ConversationChatAnswer)
    /\ WF_vars(ConversationStreamAnswer)
    /\ WF_vars(OnMessage)
    /\ WF_vars(PostResponse)

\* the timers of the streams: streamMessage with streaming on, driven by a
\* caller that may cancel and a consumer whose callback may raise
InitTimer ==
    /\ InitServer
    /\ InitClient
    /\ cfg \in [ENABLE_STREAMING : {TRUE}, hasEventSource : BOOLEAN]

NextTimer ==
    \/ FirstSend
    \/ OnMessage
    \/ OnError
    \/ DemoTick
    \/ DemoTickThrows
    \/ Cancel
    \/ ConversationStreamAnswer
    \/ StreamDelay

TimerSpec == InitTimer /\ [][NextTimer]_vars

\* the backends by themselves: start-up with or without a credential, and
\* the calls of the remote model
InitGeneration ==
    /\ InitServer
    /\ cl = NoClient
    /\ chunks = <<>>
    /\ ui = NoUi
    /\ cfg = [ENABLE_STREAMING |-> TRUE, hasEventSource |-> TRUE]
    /\ gen \in {[NoGen EXCEPT !.backend = "part_000", !.key = k,
                                !.request.message = message,
                                !.request.config = config] :
                     k \in Keys \ {PlaceholderKey},
                     message \in Queries, config \in Configs}
                \cup {[NoGen EXCEPT !.backend = "part_000", !.key = k,
                                     !.request.endpoint = "rag",
                                     !.request.message = query] :
                          k \in Keys \ {PlaceholderKey}, query \in Queries}
                \cup {[NoGen EXCEPT !.backend = "server.js", !.key = k,
                                     !.request.body = body] :
                          k \in Keys, body \in LegacyBodies}

Generate ==
    /\ gen.request.endpoint = "generate"
    /\ GenerateCall(gen.request.message, gen.request.config)
Generated == \E remote \in GenerationOutcomes(gen.apiKey) : GenerateReturn(remote)
RagQuery ==
    /\ gen.request.endpoint = "rag"
    /\ RagCall(gen.request.message)
RagAnswer == \E remote \in GenerationOutcomes(gen.apiKey) : RagReturn(remote)
LegacyRequest == LegacyChat(gen.request.body)
LegacyAnswer == \E remote \in LegacyOutcomes : LegacyReturn(remote)

NextGeneration ==
    \/ Startup
    \/ Generate
    \/ Generated
    \/ RagQuery
    \/ RagAnswer
    \/ LegacyStartup
    \/ LegacyRequest
    \/ LegacyAnswer

GenerationSpec == InitGeneration /\ [][NextGeneration]_vars
(***************************************************************************)
(* Properties of the streaming pipeline (checked under Spec)               *)
(***************************************************************************)
\* the events onChunk received from demoStream: those after the cl.read
\* events that came through the event source
demoEvents == SubSeq(chunks, cl.read + 1, Len(chunks))

\* demoStream ran to its final event
DemoCompleted ==
    /\ cl.response # <<>>
    /\ cl.interval = "cleared"
    /\ chunks # <<>>
    /\ chunks[Len(chunks)].isFinal

\* the server's stream handler ended after its word loop
ServerStreamCompleted(r) ==
    /\ req[r].kind = "stream"
    /\ req[r].pc = "done"
    /\ req[r].responseText # Undefined

\* the n + 1 events of a simulated stream of text: n cumulative prefixes,
\* then the final event with the whole text
SimulatedEvents(text, contentField, finalField) ==
    LET words == split(text)
    IN  [k \in 1..(Len(words) + 1) |->
            IF k <= Len(words)
            THEN (contentField :> join(slice(words, k))) @@ (finalField :> FALSE)
            ELSE (contentField :> text) @@ (finalField :> TRUE)]

\* C1: a simulated stream of a text of n words emits n non-final events, the
\* i-th with the first i words joined by single spaces, and then one final
\* event with the full text, in demoStream and in the server's word loop
C1_SimulatedStreamEmitsNPlusOne ==
    /\ DemoCompleted =>
          demoEvents = SimulatedEvents(cl.response, "content", "isFinal")
    /\ \A r \in ReqIds :
          ServerStreamCompleted(r) =>
              wire[r] = SimulatedEvents(req[r].responseText, "content", "done")

\* C2: once the caller has invoked the function streamMessage returned, no
\* onChunk callback and no tick of the interval happens
C2_NoEventAfterCancel ==
    [][cl.cancelled => (chunks' = chunks /\ cl'.index = cl.index)]_vars

\* the number of words of the content of an event
wordCount(content) == Len(split(content))

\* C3: the events of a request are delivered in sequence order and the final
\* event is delivered at most once and last: onChunk receives nothing after
\* an event with isFinal, the server writes no frame after a frame with
\* done, and before the final event each event carries one word more than
\* the event before it in the same delivery mode
C3_OrderedAndFinalLast ==
    /\ \A k \in 1..(Len(chunks) - 1) : ~chunks[k].isFinal
    /\ \A r \in ReqIds : \A k \in 1..(Len(wire[r]) - 1) : ~wire[r][k].done
    /\ \A k \in 1..(Len(chunks) - 1) :
          (k # cl.read /\ ~chunks[k + 1].isFinal) =>
              wordCount(chunks[k + 1].content) = wordCount(chunks[k].content) + 1
    /\ \A k \in 1..Len(demoEvents) :
          ~demoEvents[k].isFinal => wordCount(demoEvents[k].content) = k
    /\ \A r \in ReqIds : \A k \in 1..Len(wire[r]) :
          "content" \in DOMAIN wire[r][k] => wordCount(wire[r][k].content) = k

\* a final event was delivered after at least one other event, and the
\* server wrote its last frame
C3_Witness ==
    /\ Len(chunks) >= 2
    /\ chunks[Len(chunks)].isFinal
    /\ Len(wire[1]) >= 2
    /\ req[1].pc = "done"

\* the final frame of the stream has been written
FinalWritten(r) == wire[r] # <<>> /\ wire[r][Len(wire[r])].done

\* C4: once the client of a stream has disconnected before the final frame,
\* the server writes no further frame and has no delay timer pending
C4_DisconnectStopsStream ==
    [][\A r \in ReqIds :
          (req[r].kind = "stream" /\ ~conn[r] /\ ~FinalWritten(r)) =>
              (wire'[r] = wire[r] /\ req'[r].pc # "delay")]_vars

\* streamMessage fell back from the event source to demoStream
FellBack == cl.cleanup = "closeEventSource" /\ cl.interval # "none"

\* C5: after a transport error streamMessage falls back to demoStream and the
\* caller's error callback is not invoked: ChatWindow shows no error and
\* the events after the fallback are content events
C5_TransportErrorNotPropagated ==
    FellBack =>
        /\ ui.error = Null
        /\ \A k \in 1..Len(demoEvents) : demoEvents[k].content # Undefined

\* C6: in pass-through mode the k-th call of onChunk carries the content and
\* the done flag of the k-th frame of the stream, the event source is
\* closed once the terminal frame was forwarded, and nothing else is
\* forwarded while the event source delivers
C6_PassThroughForwardsVerbatim ==
    /\ cl.read <= Len(wire[1])
    /\ cl.read <= Len(chunks)
    /\ \A k \in 1..cl.read :
          /\ chunks[k].content = contentOf(wire[1][k])
          /\ chunks[k].isFinal = wire[1][k].done
          /\ wire[1][k].done => (cl.eventSource = "closed" /\ k = cl.read)
    /\ cl.interval = "none" /\ cl.eventSource # "none" => Len(chunks) = cl.read

\* a partial event and then the terminal event were forwarded and the event
\* source is closed
C6_Witness ==
    /\ cl.read >= 2
    /\ ~chunks[1].isFinal
    /\ chunks[cl.read].isFinal
    /\ cl.eventSource = "closed"
    /\ cl.interval = "none"

(***************************************************************************)
(* Properties of a conversation (checked under ConversationSpec)           *)
(***************************************************************************)
\* C11: a failed POST /api/chat leaves the history of its session ending
\* with the user turn of the request, and the chatHistory ChatWindow builds
\* for a request holds no partially streamed model message: each of its
\* model entries is the welcome message or the text of a final event
C11_FailureKeepsUserTurnOnly ==
    /\ \A r \in ReqIds :
          (/\ req[r].kind = "chat" /\ req[r].pc = "done"
           /\ req[r].response.status = 500 /\ req[r].session # 0)
          => LET history == heap[req[r].session].chatHistory
             IN  /\ history # <<>>
                 /\ history[Len(history)] = Turn("user", req[r].message, r)
    /\ \A k \in 1..Len(ui.sent) :
          \A j \in 1..Len(ui.sent[k].chatHistory) :
              LET entry == ui.sent[k].chatHistory[j]
              IN  (entry.role = "model" /\ entry.text # NoUi.messages[1].content)
                  => \E c \in 1..Len(chunks) :
                        chunks[c].isFinal /\ chunks[c].content = entry.text

(***************************************************************************)
(* Properties of error handling (checked under Spec)                       *)
(***************************************************************************)
\* C12: generateGeminiResponse returns a text whatever the remote model call
\* did: every request that got past its await has its responseText
C12_GenerateNeverPropagates ==
    \A r \in ReqIds :
        (req[r].session # 0 /\ req[r].pc \in {"delay", "done"})
            => req[r].responseText # Undefined

\* C13: a streamed request whose model call failed is recovered by playback
\* of a fallback message: every frame of the stream carries content, and
\* the final event the client receives carries a text
C13_StreamFailurePlaysFallback ==
    /\ \A r \in ReqIds : \A k \in 1..Len(wire[r]) : "content" \in DOMAIN wire[r][k]
    /\ \A c \in 1..Len(chunks) :
          (c <= cl.read /\ chunks[c].isFinal) => chunks[c].content # Undefined
(***************************************************************************)
(* Properties of the session store (checked under SessionSpec)             *)
(***************************************************************************)
\* the turns of one role that request r pushed to a history
turnsBy(history, role, r) ==
    SelectSeq(history, LAMBDA t : t.role = role /\ t.by = r)

\* POST /api/chat answered 200
ChatSucceeded(r) ==
    req[r].kind = "chat" /\ req[r].pc = "done" /\ req[r].response.status = 200

\* the two requests were in flight at the same time
Overlapped(r1, r2) ==
    r1 \in req[r2].inFlightAtStart \/ r2 \in req[r1].inFlightAtStart

\* the history holds the user turn and the model turn of r, each once
HasBothTurnsOnce(history, r) ==
    /\ turnsBy(history, "user", r) = <<Turn("user", req[r].message, r)>>
    /\ turnsBy(history, "model", r) = <<Turn("model", req[r].responseText, r)>>

\* C7 as stated: when two POST /api/chat requests with the same session id
\* overlapped and both were answered, the history of the session the store
\* holds under that id contains the user turn and the model turn of both,
\* each exactly once
C7_SameIdKeepsBothRequests ==
    \A r1, r2 \in ReqIds :
        (/\ r1 # r2
         /\ ChatSucceeded(r1) /\ ChatSucceeded(r2)
         /\ req[r1].sessionId = req[r2].sessionId
         /\ Overlapped(r1, r2)
         /\ req[r1].sessionId \in DOMAIN sessions)
        => LET history == heap[sessions[req[r1].sessionId]].chatHistory
           IN  HasBothTurnsOnce(history, r1) /\ HasBothTurnsOnce(history, r2)

\* C7 amended: when two overlapping POST /api/chat requests resolved the same
\* session object, the history of that object contains the user turn of
\* each exactly once, and the model turn of each exactly once as soon as
\* that request was answered (and not before)
C7_SameSessionKeepsBothRequests ==
    \A r1, r2 \in ReqIds :
        (/\ r1 # r2
         /\ req[r1].kind = "chat" /\ req[r2].kind = "chat"
         /\ req[r1].session # 0
         /\ req[r1].session = req[r2].session
         /\ Overlapped(r1, r2))
        => LET history == heap[req[r1].session].chatHistory
           IN  \A r \in {r1, r2} :
                  /\ turnsBy(history, "user", r) = <<Turn("user", req[r].message, r)>>
                  /\ IF ChatSucceeded(r)
                     THEN turnsBy(history, "model", r) =
                              <<Turn("model", req[r].responseText, r)>>
                     ELSE turnsBy(history, "model", r) = <<>>

\* two overlapping requests on one session were both answered, the second
\* having pushed its user turn before the answer of the first
C7_Witness ==
    /\ ChatSucceeded(1) /\ ChatSucceeded(2)
    /\ req[1].session = req[2].session
    /\ 1 \in req[2].inFlightAtStart
    /\ Len(heap[req[1].session].chatHistory) = 4
    /\ heap[req[1].session].chatHistory[2].by = 2

\* the request ended with its answer delivered
Completed(r) == ChatSucceeded(r) \/ ServerStreamCompleted(r)

\* C8: after a chat request completed, one-shot or streamed, the session it
\* resolved contains the user turn and the model turn of that request
C8_CompletedRequestHasBothTurns ==
    \A r \in ReqIds :
        Completed(r) =>
            LET history == heap[req[r].session].chatHistory
            IN  /\ \E k \in 1..Len(history) :
                      history[k] = Turn("user", req[r].message, r)
                /\ \E k \in 1..Len(history) :
                      history[k] = Turn("model", req[r].responseText, r)

\* a step of the sweep: the clock shows the time of the next run
SweepStep == now' # now

\* C9: a run of the sweep removes every session whose lastActivity is more
\* than 30 minutes in the past and keeps every other session, with its
\* history unchanged
C9_SweepEvictsExactlyTheExpired ==
    [][SweepStep =>
          \A id \in DOMAIN sessions :
              IF now' - heap[sessions[id]].lastActivity > 30 * 60 * 1000
              THEN id \notin DOMAIN sessions'
              ELSE /\ id \in DOMAIN sessions'
                   /\ sessions'[id] = sessions[id]
                   /\ heap'[sessions'[id]].chatHistory =
                          heap[sessions[id]].chatHistory]_vars

\* the sweep has just removed a session with a history and kept another one
\* whose lastActivity is exactly the timeout in the past
C9_Witness ==
    /\ \E k \in 1..Len(heap) :
          /\ heap[k].id \notin DOMAIN sessions
          /\ heap[k].chatHistory # <<>>
          /\ now - heap[k].lastActivity > timeout
    /\ \E id \in DOMAIN sessions :
          now - heap[sessions[id]].lastActivity = timeout

\* request r arrives in this step
Arrives(r) == req[r].kind = "none" /\ req'[r].kind # "none"

\* what the touch of getOrCreateSession leaves behind for the request r that
\* arrives in this step: a new session with nothing but what r pushed when
\* the id was not in the store, the session of the store with its history
\* preserved otherwise, lastActivity the current time in both cases
Touched(r) ==
    LET id == req'[r].sessionId
    IN  /\ id \in DOMAIN sessions'
        /\ req'[r].session = sessions'[id]
        /\ heap'[sessions'[id]].lastActivity = now
        /\ heap'[sessions'[id]].id = id
        /\ IF id \in DOMAIN sessions
           THEN /\ sessions'[id] = sessions[id]
                /\ SelectSeq(heap'[sessions'[id]].chatHistory, LAMBDA t : t.by # r)
                       = heap[sessions[id]].chatHistory
           ELSE /\ sessions'[id] > Len(heap)
                /\ heap'[sessions'[id]].createdAt = now
                /\ SelectSeq(heap'[sessions'[id]].chatHistory, LAMBDA t : t.by # r)
                       = <<>>
        /\ \A other \in DOMAIN sessions \ {id} :
              other \in DOMAIN sessions' /\ sessions'[other] = sessions[other]

\* the store holds at most one session per id: the object under a key bears
\* that id, and no object is under two keys
OneSessionPerId ==
    /\ \A id \in DOMAIN sessions : heap[sessions[id]].id = id
    /\ \A id1, id2 \in DOMAIN sessions : sessions[id1] = sessions[id2] => id1 = id2

\* C10 as stated: every /api/chat and /api/chat/stream request performs the
\* touch of getOrCreateSession, and at most one session exists per id
C10_EveryRequestTouches ==
    /\ []OneSessionPerId
    /\ [][\A r \in ReqIds : Arrives(r) => Touched(r)]_vars

\* C10 amended: every /api/chat/stream request and every /api/chat request
\* that carries a message performs the touch of getOrCreateSession, and at
\* most one session exists per id
C10_RequestWithMessageTouches ==
    /\ []OneSessionPerId
    /\ [][\A r \in ReqIds :
            (Arrives(r) /\ ~(req'[r].kind = "chat" /\ req'[r].message = Undefined))
                => Touched(r)]_vars

\* a later request has touched the session that an earlier one created and
\* filled, while another session is in the store
C10_Witness ==
    /\ \E r1, r2 \in ReqIds :
          /\ r1 # r2
          /\ req[r1].session # 0
          /\ req[r1].session = req[r2].session
          /\ heap[req[r1].session].lastActivity > heap[req[r1].session].createdAt
          /\ heap[req[r1].session].chatHistory # <<>>
          /\ sessions[req[r1].sessionId] = req[r1].session
    /\ Len(heap) >= 1

\* the response of server.js to a request without a usable chatHistory
LegacyRejected ==
    (/\ gen.backend = "server.js"
     /\ gen.response.status # 0
     /\ (~gen.request.body.has \/ gen.request.body.chatHistory = <<>>))
    => /\ gen.response.status = 400
       /\ gen.response.message = ErrContentsRequired
       /\ ~gen.calledRemote

\* C14: a chat request that lacks a required field (no message for the
\* part_000 backend, a missing or empty chatHistory for server.js) is
\* answered with a 4xx status and a message, the model is not called and the
\* session store is not changed
C14_MissingFieldRejected ==
    /\ \A r \in ReqIds :
          (req[r].kind = "chat" /\ req[r].message = Undefined)
          => /\ req[r].response.status \in 400..499
             /\ req[r].response.message # Undefined
             /\ req[r].session = 0
             /\ req[r].pc = "done"
    /\ LegacyRejected
(***************************************************************************)
(* Properties of the backends (checked under GenerationSpec)               *)
(***************************************************************************)
\* C15: a backend started without a model credential never calls the remote
\* model: it does not serve, or it serves without calling
C15_NoCredentialNoRemoteCall ==
    ~truthy(gen.key) => (gen.pc \in {"boot", "exited"} \/ ~gen.calledRemote)

\* the place of a topic in the insertion order of the knowledge base
entryIndex(topic) ==
    CHOOSE k \in 1..Len(knowledgeBase) : knowledgeBase[k].topic = topic

\* C16: searchKnowledgeBase returns at most 3 results, in descending order of
\* relevance, results of equal relevance in the insertion order of the
\* knowledge base
C16_AtMostThreeSortedStable ==
    gen.searched =>
        /\ Len(gen.ragResults) <= 3
        /\ \A i, j \in 1..Len(gen.ragResults) :
              i < j =>
                  \/ gen.ragResults[i].relevance > gen.ragResults[j].relevance
                  \/ /\ gen.ragResults[i].relevance = gen.ragResults[j].relevance
                     /\ entryIndex(gen.ragResults[i].topic)
                            < entryIndex(gen.ragResults[j].topic)

\* three results of which the first outranks an entry inserted before it and
\* the other two are tied
C16_Witness ==
    /\ gen.searched
    /\ Len(gen.ragResults) = 3
    /\ gen.ragResults[1].relevance > gen.ragResults[2].relevance
    /\ gen.ragResults[2].relevance = gen.ragResults[3].relevance
    /\ entryIndex(gen.ragResults[1].topic) > entryIndex(gen.ragResults[2].topic)

\* the number of keywords of an entry that occur in the query, both lower-cased
keywordCount(entry, query) ==
    Cardinality({k \in 1..Len(entry.keywords) :
                    includes(toLowerCase(query), toLowerCase(entry.keywords[k]))})

\* the lower-cased topic name occurs in the lower-cased query
topicOccurs(entry, query) == includes(toLowerCase(query), toLowerCase(entry.topic))

\* C17: the relevance of every result is the number of the entry's keywords
\* that occur in the query, plus exactly 5 if the topic name occurs in it
C17_RelevanceIsCountPlusBonus ==
    gen.searched =>
        \A i \in 1..Len(gen.ragResults) :
            LET entry == knowledgeBase[entryIndex(gen.ragResults[i].topic)]
            IN  gen.ragResults[i].relevance =
                    keywordCount(entry, gen.message)
                        + (IF topicOccurs(entry, gen.message) THEN 5 ELSE 0)

\* a result with the topic bonus on top of two keywords, and one without it
C17_Witness ==
    /\ gen.searched
    /\ \E i, j \in 1..Len(gen.ragResults) :
          /\ gen.ragResults[i].relevance = 7
          /\ topicOccurs(knowledgeBase[entryIndex(gen.ragResults[i].topic)], gen.message)
          /\ gen.ragResults[j].relevance = 1

\* C18: a query in which no keyword and no topic name of any entry occurs gets
\* the empty sequence, and every result is an entry of which a keyword or
\* the topic name occurs in the query
C18_NoMatchNoResult ==
    gen.searched =>
        /\ (\A k \in 1..Len(knowledgeBase) :
                keywordCount(knowledgeBase[k], gen.message) = 0
                    /\ ~topicOccurs(knowledgeBase[k], gen.message))
           => gen.ragResults = <<>>
        /\ \A i \in 1..Len(gen.ragResults) :
              LET entry == knowledgeBase[entryIndex(gen.ragResults[i].topic)]
              IN  keywordCount(entry, gen.message) > 0
                      \/ topicOccurs(entry, gen.message)

\* the search of a query that is not empty and matches nothing came back empty
C18_Witness ==
    /\ gen.searched
    /\ gen.message # <<>>
    /\ \A k \in 1..Len(knowledgeBase) :
          keywordCount(knowledgeBase[k], gen.message) = 0
              /\ ~topicOccurs(knowledgeBase[k], gen.message)
    /\ gen.ragResults = <<>>

\* the call of the remote model was prepared
Prepared == gen.backend = "part_000" /\ gen.calledRemote

\* C19: the prompt begins with the persona instruction; when ragEnabled is set
\* and the search of the message has results it holds the knowledge block
\* with the topic and the content of each result, and otherwise it is the
\* persona instruction followed by the raw message
C19_PromptHasBlockIffRagFinds ==
    Prepared =>
        LET results == searchKnowledgeBase(gen.message)
            persona == systemPrompt \o <<"\n\n">>
        IN  /\ SubSeq(gen.prompt, 1, Len(persona)) = persona
            /\ IF /\ "ragEnabled" \in DOMAIN gen.config
                  /\ gen.config.ragEnabled = TRUE
                  /\ results # <<>>
               THEN /\ includes(gen.prompt, promptKnowledge)
                    /\ \A i \in 1..Len(results) :
                          includes(gen.prompt,
                                   results[i].topic \o <<": ">> \o results[i].content)
               ELSE gen.prompt = persona \o gen.message

\* a prompt with a knowledge block of two results or more was prepared
C19_Witness ==
    /\ Prepared
    /\ "ragEnabled" \in DOMAIN gen.config
    /\ gen.config.ragEnabled = TRUE
    /\ Len(gen.ragResults) >= 2
    /\ includes(gen.prompt, promptKnowledge \o knowledgeBlock(gen.ragResults))

\* C20: the generation options are the caller's maxTokens and temperature
\* whenever the caller gave them (maxTokens above 0, temperature from 0 to 1,
\* 0 included), and 2048 and 0.7 only when the option is absent
C20_OptionsPassedThrough ==
    Prepared =>
        /\ gen.generationConfig.maxOutputTokens =
              (IF "maxTokens" \in DOMAIN gen.config
               THEN gen.config.maxTokens ELSE 2048)
        /\ gen.generationConfig.temperature =
              (IF "temperature" \in DOMAIN gen.config
               THEN gen.config.temperature ELSE 70)

(***************************************************************************)
(* Properties of POST /api/rag (checked under GenerationSpec)              *)
(***************************************************************************)
\* the number of places of s at which sub begins
occurrences(s, sub) ==
    Cardinality({i \in 1..(Len(s) - Len(sub) + 1) :
                    SubSeq(s, i, i + Len(sub) - 1) = sub})

\* POST /api/rag has searched the knowledge base for the query
RagSearched == gen.request.endpoint = "rag" /\ gen.searches > 0

\* C21: POST /api/rag searches the knowledge base exactly once: the call of
\* generateGeminiResponse that produces the answer runs with ragEnabled
\* false, so it makes no second search and its prompt holds the knowledge
\* of the results once, with no knowledge block nested around it
C21_RagSearchesOnce ==
    RagSearched =>
        /\ gen.searches = 1
        /\ gen.calledRemote =>
              /\ ~gen.searched
              /\ ~includes(gen.prompt, promptKnowledge)
              /\ occurrences(gen.prompt, knowledgeBlock(gen.results)) = 1
              /\ gen.prompt = systemPrompt \o <<"\n\n">>
                                  \o ragPrompt(gen.request.message, gen.results)

\* POST /api/rag answered a query with two results or more from the model
C21_Witness ==
    /\ RagSearched
    /\ gen.calledRemote
    /\ Len(gen.results) >= 2
    /\ gen.pc = "serving"
    /\ gen.response.status = 200
    /\ gen.response.text = <<"a">>

\* C22: when the search has no result POST /api/rag answers 200 with the
\* no-relevant-information answer and empty sources and never calls the
\* model; when it has results, the sources of the successful answer are the
\* topic and the relevance of each result, in the order of the search
C22_RagAnswerAndSources ==
    RagSearched =>
        LET results == searchKnowledgeBase(gen.request.message)
        IN  IF Len(results) = 0
            THEN /\ gen.response.status = 200
                 /\ gen.response.text = NoRelevantInformation
                 /\ gen.hasSources /\ gen.sources = <<>>
                 /\ ~gen.calledRemote
                 /\ gen.pc = "serving"
            ELSE gen.response.status = 200 =>
                    /\ gen.hasSources
                    /\ Len(gen.sources) = Len(results)
                    /\ \A i \in 1..Len(results) :
                          /\ gen.sources[i].topic = results[i].topic
                          /\ gen.sources[i].relevance = results[i].relevance

\* a successful answer with three sources of which the first outranks the
\* second
C22_Witness ==
    /\ RagSearched
    /\ gen.response.status = 200
    /\ Len(gen.sources) = 3
    /\ gen.sources[1].relevance > gen.sources[2].relevance
    /\ gen.sources[1].topic = gen.results[1].topic

(***************************************************************************)
(* Properties of the client's fallback and timers                          *)
(***************************************************************************)
\* streaming was on for the request and did not work: the event source
\* could not be created, or it reported an error
StreamingFailed ==
    /\ cfg.ENABLE_STREAMING
    /\ cl.pc # "idle"
    /\ (~cfg.hasEventSource \/ FellBack)

\* C23: when streaming does not work on the client, the client falls back to
\* a regular non-streaming chat request for the same message: a POST
\* /api/chat with the message is made, and no simulated stream is started
C23_FallbackIsRegularRequest ==
    StreamingFailed =>
        /\ \E r \in ReqIds : req[r].kind = "chat" /\ req[r].message = cl.message
        /\ cl.interval = "none"

\* C24 (checked under TimerSpec): the timer of a simulated stream is
\* cancelled on every exit path: once demoStream delivered its final event,
\* once the caller cancelled, and once the consumer callback raised during a
\* tick, its interval is not armed; and no delay of the server's word loop
\* is pending for a stream whose client is gone
C24_TimerCancelledOnEveryExit ==
    /\ (demoEvents # <<>> /\ demoEvents[Len(demoEvents)].isFinal)
          => cl.interval # "armed"
    /\ cl.cancelled => cl.interval # "armed"
    /\ cl.threw => cl.interval # "armed"
    /\ \A r \in ReqIds :
          (req[r].kind = "stream" /\ ~conn[r]) => req[r].pc # "delay"

(***************************************************************************)
(* Properties of the histories (checked under SessionSpec)                 *)
(***************************************************************************)
\* s is the beginning of t
isPrefix(s, t) == Len(s) <= Len(t) /\ SubSeq(t, 1, Len(s)) = s

\* C25: while a session stays in the store its history is append-only and
\* in the order of arrival: every step leaves the history it had as the
\* beginning of the history it has, the user turns are in the order in
\* which their requests arrived, and the model turn of a request comes
\* after its user turn
C25_HistoryAppendOnly ==
    [][\A id \in DOMAIN sessions :
          (id \in DOMAIN sessions' /\ sessions'[id] = sessions[id]) =>
              LET old == heap[sessions[id]].chatHistory
                  new == heap'[sessions[id]].chatHistory
              IN  /\ isPrefix(old, new)
                  /\ \A i, j \in 1..Len(new) :
                        /\ (i < j /\ new[i].role = "user" /\ new[j].role = "user")
                              => new[i].by < new[j].by
                        /\ (new[i].by = new[j].by /\ new[i].role = "user"
                                /\ new[j].role = "model") => i < j]_vars

\* a session that is in the store, was kept by a run of the sweep after its
\* first turn and holds the turns of two requests, a model turn included
C25_Witness ==
    \E id \in DOMAIN sessions :
        LET session == heap[sessions[id]]
        IN  /\ Len(session.chatHistory) >= 3
            /\ session.chatHistory[1].by # session.chatHistory[3].by
            /\ \E k \in 1..Len(session.chatHistory) :
                  session.chatHistory[k].role = "model"
            /\ session.lastActivity > session.createdAt

\* the request was handled to its end: POST /api/chat has answered
ChatEnded(r) == req[r].kind = "chat" /\ req[r].pc = "done" /\ req[r].session # 0

\* C26: in a session history the turns of each request stay in request
\* order: once a request has completed, its user turn is immediately
\* followed by its model turn, and once every request on the session has
\* ended the roles alternate user, model, user, model, whether requests
\* overlapped or an earlier one failed
C26_TurnsAlternate ==
    \A s \in 1..Len(heap) :
        LET history == heap[s].chatHistory
        IN  /\ \A k \in 1..Len(history) :
                  (history[k].role = "user" /\ ChatSucceeded(history[k].by)) =>
                      /\ k < Len(history)
                      /\ history[k + 1] =
                             Turn("model", req[history[k].by].responseText,
                                  history[k].by)
            /\ (\A r \in ReqIds : req[r].session = s => ChatEnded(r)) =>
                  \A k \in 1..Len(history) :
                      history[k].role = (IF k % 2 = 1 THEN "user" ELSE "model")

(***************************************************************************)
(* Properties of ChatWindow (checked under Spec and ConversationSpec)      *)
(***************************************************************************)
\* C27 (checked under Spec): after the final event of a response was given
\* to ChatWindow's chunk callback with a text that is not empty, the message
\* on display for the response carries that text, whichever way the events
\* came: from the server's word stream, from demoStream or from the
\* one-shot request
C27_FinalEventShowsWholeText ==
    \A c \in 1..Len(chunks) :
        (chunks[c].isFinal /\ truthy(chunks[c].content)) =>
            \E k \in 1..Len(ui.messages) :
                /\ ui.messages[k].id = tempId
                /\ ui.messages[k].content = chunks[c].content

\* a request of the window is still delivering events: its POST is pending,
\* its event source is open, or the interval of its simulated stream is armed
Delivering ==
    cl.pc = "posting" \/ cl.eventSource = "open" \/ cl.interval = "armed"

\* C28 (checked under ConversationSpec): at most one response stream is
\* active per chat window: a further message is sent only when no earlier
\* request is still delivering events, a simulated fallback stream after a
\* transport error included
C28_OneActiveStream ==
    [][(ui.sent # <<>> /\ Len(ui'.sent) > Len(ui.sent)) => ~Delivering]_vars

(***************************************************************************)
(* Properties of the model input (checked under SessionSpec)               *)
(***************************************************************************)
\* the number of entries of a history given to the model that are the user
\* message of request r
currentIn(history, r) ==
    Cardinality({k \in 1..Len(history) :
                    /\ history[k].role = "user"
                    /\ history[k].text = req[r].message
                    /\ ("by" \in DOMAIN history[k] => history[k].by = r)})

\* request r has called generateGeminiResponse
CalledModel(r) == req[r].kind \in {"chat", "stream"} /\ req[r].session # 0

\* C29: in every model call made for a chat request the text of the current
\* user message is part of the model input exactly once: it is the message
\* given to chat.sendMessage, and the history given to startChat does not
\* hold it as well
C29_MessageOnceInModelInput ==
    \A r \in ReqIds : CalledModel(r) => currentIn(req[r].history, r) = 0

(***************************************************************************)
(* Progress of a request (checked under LiveSpec)                          *)
(***************************************************************************)
\* the final events and the errors ChatWindow has observed for its request
finalEvents == Cardinality({c \in 1..Len(chunks) : chunks[c].isFinal})
errorsShown == IF ui.error = Null THEN 0 ELSE 1

\* the request was started
Started == cl.pc # "idle"

\* the request left STREAMING: the typing indicator is off
LeftStreaming == Started /\ ~ui.isTyping

\* C30: every request started by handleSendMessage eventually leaves
\* STREAMING: it observes one final event or one error, never both and
\* never two, and the typing indicator is eventually off and stays off
C30_RequestEndsOnce ==
    /\ [](finalEvents + errorsShown <= 1)
    /\ Started ~> (LeftStreaming /\ finalEvents + errorsShown = 1)
    /\ Started ~> []LeftStreaming
====
